---- MODULE Spec2Model ----
(***************************************************************************)
(* gigi: FastCGI GDAL raster subsetter (src/gigi.cpp, the State/gdataset   *)
(* version starting at line 217).  The model follows realmain: configure,  *)
(* accept, per-request dispatch to html_out or get_image, finish, loop.    *)
(*                                                                         *)
(* Doubles are modelled as fixed-point numbers: the integer n stands for   *)
(* the double n / Scale.  Texts of the size and bbox parameters are        *)
(* sequences of tokens: a numeral, a comma, a non-numeric character, or a  *)
(* numeral too large for a double.                                         *)
(***************************************************************************)
EXTENDS Integers, Sequences, FiniteSets, TLC

VARIABLES pc,        \* position in realmain
          conf,      \* the configuration file content (State::conf)
          dataset,   \* State::dataset (gdataset: pds, name, type)
          dynconf,   \* State::dynconf (prefix, suffix)
          live,      \* handles GDAL currently holds open
          is_fcgi,   \* realmain's is_fcgi
          verbose,   \* State::verbose
          req,       \* the request being handled (the cgicc form)
          out,       \* what State::send has written for this request
          engine,    \* the GDALTranslate call of this request, if any
          ops,       \* GDAL open/close calls of the last step, in order
          peak,      \* most handles open at one moment of the last step
          vsimem,    \* state of /vsimem/out.jpg
          loop,      \* counts of realmain's loop: requests accepted,
                     \* handlers dispatched, FCGX_Finish_r calls, and the
                     \* value of the latest FCGX_Accept_r
          call       \* a direct call of ret_error and what it sent

vars == <<pc, conf, dataset, dynconf, live, is_fcgi, verbose, req, out,
          engine, ops, peak, vsimem, loop, call>>

-----------------------------------------------------------------------------
(* Fixed-point doubles *)

\* Fractional bits of the modelled doubles.
FracBits == 1

\* Denominator of the modelled doubles: they are binary fractions.
Scale == 2^FracBits

\* The double with integer value n.
D(n) == n * Scale

\* static_cast<int>(double): truncation toward zero.
TruncAs(x) == IF x >= 0 THEN x \div Scale ELSE -((-x) \div Scale)

\* Rounding toward negative infinity (floor) instead.
FloorAs(x) == x \div Scale

static_cast_int(x) == TruncAs(x)

\* Division of a by b > 0 rounded to the nearest integer, ties to even.
RoundDiv(a, b) ==
    LET m == IF a >= 0 THEN a ELSE -a
        q == m \div b
        r == m % b
        n == IF 2 * r > b \/ (2 * r = b /\ q % 2 = 1) THEN q + 1 ELSE q
    IN IF a >= 0 THEN n ELSE -n

\* CPLSPrintf("%f", x): the numeral with six decimals nearest to x, as
\* its count of millionths.
PrintfF(x) == RoundDiv(x * 1000000, Scale)

-----------------------------------------------------------------------------
(* Tokens of a parameter text *)

Num(n)  == [k |-> "num", v |-> n]
Comma   == [k |-> ",", v |-> 0]
Junk    == [k |-> "x", v |-> 0]
Huge    == [k |-> "1e999", v |-> 0]

RECURSIVE Join(_)
\* The text "v1,v2,...,vn" of a list of numerals.
Join(vals) ==
    IF Len(vals) = 0 THEN <<>>
    ELSE IF Len(vals) = 1 THEN <<Num(vals[1])>>
    ELSE <<Num(vals[1]), Comma>> \o Join(Tail(vals))

-----------------------------------------------------------------------------
(* 32-bit integers.  An unsigned 32-bit value is the pair hi * 2^16 + lo. *)

Half16 == 2^16

U(h, l) == [hi |-> h, lo |-> l]

\* Two's complement negation of an unsigned 32-bit value.
NegU32(u) ==
    IF u.lo = 0
    THEN U((Half16 - u.hi) % Half16, 0)
    ELSE U(Half16 - 1 - u.hi, Half16 - u.lo)

\* An unsigned 32-bit value stored in an int (int xsz written through %u).
ToInt32(u) ==
    IF u.hi < Half16 \div 2
    THEN u.hi * Half16 + u.lo
    ELSE (u.hi - Half16) * Half16 + u.lo

\* An int printed with "%u": its value as an unsigned 32-bit number.
PrintfU(x) ==
    IF x >= 0
    THEN U(x \div Half16, x % Half16)
    ELSE U(Half16 + (x \div Half16), x % Half16)

\* A numeral of the size text: sign and magnitude below 2^32.
SNum(neg, h, l) == [k |-> "num", v |-> [neg |-> neg, mag |-> U(h, l)]]

\* What %u stores for a numeral: strtoul semantics, a minus sign negates.
ScanU(v) == IF v.neg THEN NegU32(v.mag) ELSE v.mag

\* sscanf(text, "%u,%u", &xsz, &ysz) on int xsz, ysz holding x0, y0.
sscanf_size(text, x0, y0) ==
    IF Len(text) < 1 \/ text[1].k # "num"
    THEN [n |-> 0, xsz |-> x0, ysz |-> y0]
    ELSE LET x1 == ToInt32(ScanU(text[1].v))
         IN IF Len(text) < 3 \/ text[2].k # "," \/ text[3].k # "num"
            THEN [n |-> 1, xsz |-> x1, ysz |-> y0]
            ELSE [n |-> 2, xsz |-> x1, ysz |-> ToInt32(ScanU(text[3].v))]

DefaultSize == 1024
MaxSize == 2048

\* Each axis clamped on its own.
LimitSizePerAxis(x, y) ==
    [xsz |-> IF x > MaxSize THEN DefaultSize ELSE x,
     ysz |-> IF y > MaxSize THEN DefaultSize ELSE y]

\* "Limit the size": if (xsz > 2048 || ysz > 2048) xsz = ysz = 1024;
LimitSize(x, y) ==
    IF x > MaxSize \/ y > MaxSize
    THEN [xsz |-> DefaultSize, ysz |-> DefaultSize]
    ELSE [xsz |-> x, ysz |-> y]

-----------------------------------------------------------------------------
(* parse_bbox *)

\* The double a numeral too large for a double parses to (HUGE_VAL).
HugeVal == D(1000000)

\* CPLStrtod(bb, &bb) at position p of the text: the value, the end
\* position, and whether errno was set (ERANGE).  Without a numeral at p
\* nothing is converted: 0 is returned and the position is unchanged.
CPLStrtod(text, p) ==
    IF p <= Len(text) /\ text[p].k = "num"
    THEN [val |-> text[p].v, end |-> p + 1, err |-> FALSE]
    ELSE IF p <= Len(text) /\ text[p].k = "1e999"
    THEN [val |-> HugeVal, end |-> p + 1, err |-> TRUE]
    ELSE [val |-> 0, end |-> p, err |-> FALSE]

RECURSIVE parse_loop(_, _, _, _)
\* The do/while loop of parse_bbox, entered with i values stored.
parse_loop(text, p, i, bbox) ==
    LET p1 == IF p <= Len(text) /\ text[p].k = "," THEN p + 1 ELSE p
        r  == CPLStrtod(text, p1)
        b1 == [bbox EXCEPT ![i + 1] = r.val]
    IN IF r.err
       THEN [i |-> i, bbox |-> b1, err |-> TRUE]
       ELSE IF i + 1 < 4 /\ r.end <= Len(text)
       THEN parse_loop(text, r.end, i + 1, b1)
       ELSE [i |-> i + 1, bbox |-> b1, err |-> FALSE]

\* The count below which parse_bbox returns without the order check.
OrderCheckFrom == 3

\* The end of parse_bbox with the order of Y left unchecked.
ParseTailNoY(l) ==
    IF l.err THEN l.i
    ELSE IF l.i < OrderCheckFrom THEN l.i
    ELSE IF l.bbox[3] <= l.bbox[1] THEN 1
    ELSE 4

\* parse_bbox after its loop: the early returns and the order check.
ParseTail(l) ==
    IF l.err THEN l.i
    ELSE IF l.i < OrderCheckFrom THEN l.i
    ELSE IF l.bbox[3] <= l.bbox[1] \/ l.bbox[4] <= l.bbox[2]
    THEN (IF l.bbox[3] <= l.bbox[1] THEN 1 ELSE 0)
    ELSE 4

\* int parse_bbox(const char *bbval, double *bbox): the returned count and
\* the array as left behind; bbox0 is the array the caller passed in.
parse_bbox(text, bbox0) ==
    LET l == parse_loop(text, 1, 0, bbox0)
    IN [n |-> ParseTail(l), bbox |-> l.bbox]

-----------------------------------------------------------------------------
(* The raster library and the dataset slot *)

\* The rasters that exist, with their pixel sizes (GetRasterXSize/YSize).
Rasters ==
    [path \in {"F", "pAs", "pBs"} |->
        IF path = "pAs" THEN [xsize |-> 2, ysize |-> 3]
        ELSE [xsize |-> 200, ysize |-> 190]]

nullptr == 0

\* The handle a successful GDALDataset::Open returns: one not in use.
NewHandle(lv) == CHOOSE h \in 1..(Cardinality(lv) + 1) : h \notin lv

OpenEv(fname, h) == [op |-> "open", path |-> fname, h |-> h]
CloseEv(h)       == [op |-> "close", path |-> "", h |-> h]

Max(a, b) == IF a >= b THEN a ELSE b

\* gdataset::clear() that forgets the handle without closing it.
ClearNoClose(ds, lv) ==
    IF ds.pds # nullptr
    THEN [ds |-> [ds EXCEPT !.pds = nullptr, !.name = ""],
          live |-> lv, ops |-> <<>>, peak |-> Cardinality(lv)]
    ELSE [ds |-> ds, live |-> lv, ops |-> <<>>, peak |-> Cardinality(lv)]

\* gdataset::clear(): the slot, the open handles, the GDAL calls made and
\* the largest number of handles open at any moment.
gdataset_clear(ds, lv) ==
    IF ds.pds # nullptr
    THEN [ds |-> [ds EXCEPT !.pds = nullptr, !.name = ""],
          live |-> lv \ {ds.pds},
          ops |-> <<CloseEv(ds.pds)>>,
          peak |-> Cardinality(lv)]
    ELSE [ds |-> ds, live |-> lv, ops |-> <<>>, peak |-> Cardinality(lv)]

\* The open that records the name only when GDAL returns a handle.
OpenForgetsFailure(c, fname) ==
    LET h  == IF fname \in DOMAIN Rasters THEN NewHandle(c.live) ELSE nullptr
        l1 == IF h # nullptr THEN c.live \cup {h} ELSE c.live
    IN [ok   |-> h # nullptr,
        ds   |-> IF h # nullptr
                 THEN [c.ds EXCEPT !.name = fname, !.pds = h]
                 ELSE [c.ds EXCEPT !.pds = h],
        live |-> l1,
        ops  |-> c.ops \o <<OpenEv(fname, h)>>,
        peak |-> Max(c.peak, Cardinality(l1))]

\* name = fname; pds = GDALDataset::Open(fname, GA_ReadOnly);
\* return pds != nullptr;   c is the slot as the preceding call left it.
OpenInto(c, fname) ==
    LET h  == IF fname \in DOMAIN Rasters THEN NewHandle(c.live) ELSE nullptr
        l1 == IF h # nullptr THEN c.live \cup {h} ELSE c.live
    IN [ok   |-> h # nullptr,
        ds   |-> [c.ds EXCEPT !.name = fname, !.pds = h],
        live |-> l1,
        ops  |-> c.ops \o <<OpenEv(fname, h)>>,
        peak |-> Max(c.peak, Cardinality(l1))]

\* The slot when nothing was called.
Untouched(ds, lv) ==
    [ds |-> ds, live |-> lv, ops |-> <<>>, peak |-> Cardinality(lv)]

\* gdataset::open that takes any open raster for the one asked for.
OpenReusesAny(ds, lv, fname) ==
    IF ds.pds # nullptr \/ fname = ds.name
    THEN [ok |-> ds.pds # nullptr] @@ Untouched(ds, lv)
    ELSE OpenInto(gdataset_clear(ds, lv), fname)

\* gdataset::open without the same-name shortcut.
OpenAlways(ds, lv, fname) == OpenInto(gdataset_clear(ds, lv), fname)

\* gdataset::open that opens the new raster before closing the old one.
OpenBeforeClose(ds, lv, fname) ==
    IF fname = ds.name
    THEN [ok |-> ds.pds # nullptr] @@ Untouched(ds, lv)
    ELSE LET o == OpenInto(Untouched(ds, lv), fname)
             c == gdataset_clear(ds, o.live)
         IN [ok |-> o.ok, ds |-> o.ds, live |-> c.live,
             ops |-> o.ops \o c.ops, peak |-> Max(o.peak, c.peak)]

\* bool gdataset::open(const string &fname)
gdataset_open(ds, lv, fname) ==
    IF fname = ds.name
    THEN [ok |-> ds.pds # nullptr] @@ Untouched(ds, lv)
    ELSE OpenInto(gdataset_clear(ds, lv), fname)

-----------------------------------------------------------------------------
(* Responses *)

html_errors ==
    [c \in {400, 404, 500} |->
        IF c = 400 THEN "Bad Request"
        ELSE IF c = 404 THEN "Not Found"
        ELSE "Internal Server error"]

\* The default of ret_error's code parameter.
DefaultCode == 404

\* The "Extra" line of a page that has none.
NoExtra == [name |-> "", pds |-> nullptr, err |-> ""]

Chunk(kind, code, text, msg) ==
    [kind |-> kind, code |-> code, text |-> text, msg |-> msg,
     extra |-> NoExtra]

\* ret_error with 500 as the code sent for a code outside the table.
RetErrorFallback500(message, code) ==
    LET c == IF code \notin DOMAIN html_errors THEN 500 ELSE code
    IN <<Chunk("error", c, html_errors[c], message)>>

\* ret_error with the test of the code inverted: a code of the table is
\* sent as 404.
RetErrorInverted(message, code) ==
    LET c == IF code \in DOMAIN html_errors THEN 404 ELSE code
    IN <<Chunk("error", c,
               IF c \in DOMAIN html_errors THEN html_errors[c] ELSE "",
               message)>>

\* static int ret_error(State &c, const string &message, int code = 404):
\* the one string it sends.
ret_error(message, code) ==
    LET c == IF code \notin DOMAIN html_errors THEN 404 ELSE code
    IN <<Chunk("error", c, html_errors[c], message)>>

\* "Status: 200 OK\r\nContent-type: image/jpeg\r\n\r\n"
Header200 == Chunk("header", 200, "image/jpeg", "")

\* The bytes of /vsimem/out.jpg
ImageBytes == Chunk("image", 0, "", "")

\* The text get_image accumulates when c.verbose is set.
VerboseText(bbox) == Chunk("verbose", 200, "text/html", "Bounding Box")

\* What GDALTranslate can leave at /vsimem/out.jpg: no file, an empty
\* file, a file of at most 10 MiB, a larger file.
EngineOutcomes == {"none", "empty", "ok", "big"}

\* int State::send(const vsifname &fname): the chunks written.
send_vsifname(file) ==
    IF file = "none" \/ file = "empty" \/ file = "big"
    THEN <<>>
    ELSE <<ImageBytes>>

\* The output file removed only when it was one that could be sent.
VSIUnlinkIfSent(file) == IF file = "ok" THEN "none" ELSE file

\* VSIUnlink(outfname)
VSIUnlink(file) == "none"

-----------------------------------------------------------------------------
(* get_image and html_out *)

NoEngine ==
    [called |-> FALSE, outsize |-> <<U(0, 0), U(0, 0)>>, win |-> "",
     args |-> <<0, 0, 0, 0>>, bbox |-> <<0, 0, 0, 0>>, src |-> nullptr,
     file |-> "none"]

\* A return from get_image before GDALTranslate: the slot as s left it.
Return(s, chunks, file) ==
    [ds |-> s.ds, live |-> s.live, ops |-> s.ops, peak |-> s.peak,
     out |-> chunks, engine |-> NoEngine, file |-> file]

\* The -outsize arguments: CPLOPrintf("%u", xsz), CPLOPrintf("%u", ysz).
OutSize(lim) == <<PrintfU(lim.xsz), PrintfU(lim.ysz)>>

\* Translate with the header block sent whether or not RAW is given.
TranslateHeaderAlways(s, rq, vb, lim, win, args, bbox, eo) ==
    [ds |-> s.ds, live |-> s.live, ops |-> s.ops, peak |-> s.peak,
     out |-> IF vb THEN <<VerboseText(bbox)>>
             ELSE <<Header200>> \o send_vsifname(eo),
     engine |-> [called |-> TRUE, outsize |-> OutSize(lim), win |-> win,
                 args |-> args, bbox |-> bbox, src |-> s.ds.pds,
                 file |-> eo],
     file |-> VSIUnlink(eo)]

\* GDALTranslate into /vsimem/out.jpg, the response, and the unlink.
Translate(s, rq, vb, lim, win, args, bbox, eo) ==
    [ds |-> s.ds, live |-> s.live, ops |-> s.ops, peak |-> s.peak,
     out |-> IF vb THEN <<VerboseText(bbox)>>
             ELSE (IF rq.RAW = "" THEN <<Header200>> ELSE <<>>)
                  \o send_vsifname(eo),
     engine |-> [called |-> TRUE, outsize |-> OutSize(lim), win |-> win,
                 args |-> args, bbox |-> bbox, src |-> s.ds.pds,
                 file |-> eo],
     file |-> VSIUnlink(eo)]

\* double bbox[4] = { -180, -90, 180, 90 };
DefaultBBox == <<D(-180), D(-90), D(180), D(90)>>

\* if (bbox[0] == -180 && bbox[1] == 180): the default is taken as unset.
IsDefaultBBox(bbox) == bbox[1] = D(-180) /\ bbox[2] = D(180)

\* The preopened branch with the box converted to ints as the dynamic
\* branch converts it.
SingleBranchCastsInt(s, rq, vb, lim, bbox, eo) ==
    LET b2 == [i \in 1..4 |-> D(static_cast_int(bbox[i]))]
    IN Translate(s, rq, vb, lim, "-projwin",
                 <<PrintfF(b2[1]), PrintfF(b2[4]), PrintfF(b2[3]),
                   PrintfF(b2[2])>>, b2, eo)

\* The branch of get_image for a preopened dataset (!c.dataset.type).
SingleBranch(s, rq, vb, lim, bbox, eo) ==
    Translate(s, rq, vb, lim, "-projwin",
              <<PrintfF(bbox[1]), PrintfF(bbox[4]), PrintfF(bbox[3]),
                PrintfF(bbox[2])>>, bbox, eo)

\* The extent test without its test of the upper Y bound.
BadExtentNoY(b, xsize, ysize) ==
    b[1] < 0 \/ b[2] < 0 \/ b[3] > D(xsize)

\* The extent test of the dynamic branch.
BadExtent(b, xsize, ysize) ==
    b[1] < 0 \/ b[2] < 0 \/ b[3] > D(xsize) \/ b[4] > D(ysize)

\* The dynamic branch that opens the path before it looks at the ID.
DynamicBranchOpensFirst(ds, lv, dc, rq, vb, lim, bbox, file, eo) ==
    LET fname == dc.prefix \o rq.ID \o dc.suffix
        o     == gdataset_open(ds, lv, fname)
    IN IF rq.ID = ""
       THEN Return(o, ret_error("Missing ID element", 400), file)
       ELSE IF ~o.ok
       THEN Return(o, ret_error("No such dataset", DefaultCode), file)
       ELSE
       LET xsize == Rasters[fname].xsize
           ysize == Rasters[fname].ysize
           b1 == IF IsDefaultBBox(bbox)
                 THEN <<0, 0, D(xsize), D(ysize)>>
                 ELSE bbox
           b2 == [i \in 1..4 |-> D(static_cast_int(b1[i]))]
       IN IF BadExtent(b2, xsize, ysize)
          THEN Return(o, ret_error("Malformed bbox", 400), file)
          ELSE Translate(o, rq, vb, lim, "-srcwin",
                         <<PrintfF(b2[1]), PrintfF(D(ysize) - b2[4]),
                           PrintfF(b2[3] - b2[1]),
                           PrintfF(b2[4] - b2[2])>>, b2, eo)

\* The dynamic branch with the window's rows counted from the bottom
\* (-srcwin minX minY width height, no flip of the Y axis).
DynamicBranchNoFlip(ds, lv, dc, rq, vb, lim, bbox, file, eo) ==
    IF rq.ID = ""
    THEN Return(Untouched(ds, lv), ret_error("Missing ID element", 400), file)
    ELSE
    LET fname == dc.prefix \o rq.ID \o dc.suffix
        o     == gdataset_open(ds, lv, fname)
    IN IF ~o.ok
       THEN Return(o, ret_error("No such dataset", DefaultCode), file)
       ELSE
       LET xsize == Rasters[fname].xsize
           ysize == Rasters[fname].ysize
           b1 == IF IsDefaultBBox(bbox)
                 THEN <<0, 0, D(xsize), D(ysize)>>
                 ELSE bbox
           b2 == [i \in 1..4 |-> D(static_cast_int(b1[i]))]
       IN IF BadExtent(b2, xsize, ysize)
          THEN Return(o, ret_error("Malformed bbox", 400), file)
          ELSE Translate(o, rq, vb, lim, "-srcwin",
                         <<PrintfF(b2[1]), PrintfF(b2[2]),
                           PrintfF(b2[3] - b2[1]),
                           PrintfF(b2[4] - b2[2])>>, b2, eo)

\* The branch of get_image for a dataset named by ID (prefix not empty).
DynamicBranch(ds, lv, dc, rq, vb, lim, bbox, file, eo) ==
    IF rq.ID = ""
    THEN Return(Untouched(ds, lv), ret_error("Missing ID element", 400), file)
    ELSE
    LET fname == dc.prefix \o rq.ID \o dc.suffix
        o     == gdataset_open(ds, lv, fname)
    IN IF ~o.ok
       THEN Return(o, ret_error("No such dataset", DefaultCode), file)
       ELSE
       LET xsize == Rasters[fname].xsize
           ysize == Rasters[fname].ysize
           b1 == IF IsDefaultBBox(bbox)
                 THEN <<0, 0, D(xsize), D(ysize)>>
                 ELSE bbox
           b2 == [i \in 1..4 |-> D(static_cast_int(b1[i]))]
       IN IF BadExtent(b2, xsize, ysize)
          THEN Return(o, ret_error("Malformed bbox", 400), file)
          ELSE Translate(o, rq, vb, lim, "-srcwin",
                         <<PrintfF(b2[1]), PrintfF(D(ysize) - b2[4]),
                           PrintfF(b2[3] - b2[1]),
                           PrintfF(b2[4] - b2[2])>>, b2, eo)

\* The bbox step with the result of parse_bbox ignored.
BBoxParamUnchecked(rq) ==
    IF rq.bbox # <<>>
    THEN [n |-> 4, bbox |-> parse_bbox(rq.bbox, DefaultBBox).bbox]
    ELSE [n |-> 4, bbox |-> DefaultBBox]

\* if (!cgi("bbox").empty()) ... parse_bbox(cgi("bbox").c_str(), bbox):
\* the count get_image compares with 4, and the array.
BBoxParam(rq) ==
    IF rq.bbox # <<>>
    THEN parse_bbox(rq.bbox, DefaultBBox)
    ELSE [n |-> 4, bbox |-> DefaultBBox]

\* int get_image(State &c): the slot, the chunks sent, the engine call and
\* the state of /vsimem/out.jpg it leaves.  eo is what GDALTranslate
\* produces should it be called.
get_image(ds, lv, dc, rq, vb, file, eo) ==
    IF rq.size = <<>>
    THEN Return(Untouched(ds, lv),
                ret_error("Missing size parameter", DefaultCode), file)
    ELSE
    LET sz == sscanf_size(rq.size, DefaultSize, DefaultSize)
    IN IF sz.n # 2
       THEN Return(Untouched(ds, lv),
                   ret_error("Can't parse size", DefaultCode), file)
       ELSE
       LET lim == LimitSize(sz.xsz, sz.ysz)
           pb  == BBoxParam(rq)
       IN IF pb.n # 4
          THEN Return(Untouched(ds, lv),
                      ret_error("Can't parse bbox", DefaultCode), file)
          ELSE IF ds.type = 0
          THEN SingleBranch(Untouched(ds, lv), rq, vb, lim, pb.bbox, eo)
          ELSE IF dc.prefix # ""
          THEN DynamicBranch(ds, lv, dc, rq, vb, lim, pb.bbox, file, eo)
          ELSE Return(Untouched(ds, lv),
                      ret_error("Configuration failure", 500), file)

\* The verbose request handed to get_image, which answers it itself.
HtmlOutByGetImage(ds, lv, rq, bb0, extra, file) ==
    get_image(ds, lv, [prefix |-> "", suffix |-> ""], rq, TRUE, file, "ok")

\* int html_out(State &state, const string &extra): the page it sends,
\* with the count parse_bbox returned and the "Extra" line.  bb0 is the
\* content of the uninitialized array bb.
html_out(ds, lv, rq, bb0, extra, file) ==
    Return(Untouched(ds, lv),
           <<[Chunk("diag", parse_bbox(rq.bbox, bb0).n, "text/html",
                    "debug output") EXCEPT !.extra = extra]>>,
           file)

-----------------------------------------------------------------------------
(* Inputs: configurations and requests *)

Config(f, p, x) == [Filename |-> f, DPrefix |-> p, DSuffix |-> x]

\* Contents of the .config file: a raster that opens, one that does not,
\* a prefix and suffix, a suffix alone, nothing.
Configs ==
    {Config("F", "", ""), Config("G", "", ""), Config("", "p", "s"),
     Config("", "", "s"), Config("", "", "")}

N(neg, h, l) == [neg |-> neg, mag |-> U(h, l)]

SizeText(a, b) ==
    <<[k |-> "num", v |-> a], Comma, [k |-> "num", v |-> b]>>

\* Numeral pairs of the size parameter: in range, at and over the limit,
\* zero, written with a minus sign, 2^31 and 2^32 - 1.
SizePairs ==
    {<<N(FALSE, 0, 1), N(FALSE, 0, 2)>>,
     <<N(FALSE, 0, 2048), N(FALSE, 0, 2048)>>,
     <<N(FALSE, 0, 2049), N(FALSE, 0, 1)>>,
     <<N(FALSE, 0, 1), N(FALSE, 0, 2049)>>,
     <<N(FALSE, 0, 0), N(FALSE, 0, 5)>>,
     <<N(TRUE, 0, 5), N(FALSE, 0, 7)>>,
     <<N(FALSE, 32768, 0), N(FALSE, 0, 7)>>,
     <<N(FALSE, 0, 3000), N(FALSE, 65535, 65535)>>}

\* Values of the size parameter; <<>> is a missing or empty parameter.
SizeTexts ==
    {<<>>, <<Junk>>, <<[k |-> "num", v |-> N(FALSE, 0, 5)]>>,
     <<[k |-> "num", v |-> N(FALSE, 0, 5)], Comma, Junk>>}
    \cup {SizeText(q[1], q[2]) : q \in SizePairs}

\* Four-value boxes around the 2 x 3 raster, with fractional corners.
BoxGrid ==
    {<<a, b, c, d>> : a \in {-1, 0}, b \in {-1, 0},
                      c \in {0, 1, D(2), D(2) + 1, D(3)},
                      d \in {0, D(3), D(4)}}

BoxSpecial ==
    {<<D(-180), D(-90), D(180), D(90)>>,
     <<D(-180), D(180), 0, D(181)>>,
     <<D(-1), 0, D(2), D(3)>>,
     <<D(1), D(1), D(2), D(3)>>,
     <<0, 0, D(200), D(190)>>,
     <<0, 0, D(201), D(190)>>}

\* Lists of fewer or more than four values.
BoxShort ==
    {<<0>>, <<0, 0>>, <<0, 0, D(2)>>, <<0, 0, D(10)>>, <<D(2), 0, 0>>,
     <<0, 0, D(2), D(3), D(7)>>}

BoxJunk ==
    {<<Junk, Comma, Junk>>,
     Join(<<0, 0, D(2)>>) \o <<Comma>>,
     Join(<<0, 0, D(2)>>) \o <<Comma, Junk>>,
     <<Huge>>,
     Join(<<0, 0>>) \o <<Comma, Huge>>}

\* Values of the bbox parameter; <<>> is a missing or empty parameter.
BBoxTexts ==
    {<<>>} \cup {Join(v) : v \in BoxGrid \cup BoxSpecial \cup BoxShort}
    \cup BoxJunk

IDs == {"", "A", "B", "C"}

Flags == {"", "1"}

\* Every size with a few boxes, every box with a good size.
SizeBBox ==
    (SizeTexts \X {<<>>, Join(<<0, 0, D(2), D(3)>>), <<Junk, Comma, Junk>>})
    \cup ({SizeText(N(FALSE, 0, 1), N(FALSE, 0, 2))} \X BBoxTexts)

\* The form of a request: cgi("size"), cgi("bbox"), cgi("ID"), ...
Requests ==
    {[size |-> sb[1], bbox |-> sb[2], ID |-> i, RAW |-> r, dbg |-> d] :
        sb \in SizeBBox, i \in IDs, r \in Flags, d \in Flags}

NoRequest == [size |-> <<>>, bbox |-> <<>>, ID |-> "", RAW |-> "", dbg |-> ""]

\* Texts CPLGetLastErrorMsg() may return: none, or GDAL's latest message.
LastErrors == {"", "GDAL error"}

\* CPLOPrintf("%s %x %s", state.dataset.name.c_str(), state.dataset.pds,
\* CPLGetLastErrorMsg()): the extra text realmain hands to html_out.
Extra(ds, err) == [name |-> ds.name, pds |-> ds.pds, err |-> err]

\* Contents an uninitialized double[4] may have.
Garbage == {<<g, g, g, g>> : g \in {D(-1000), D(1000)}}

-----------------------------------------------------------------------------
(* realmain *)

\* Requests one run of the loop takes before FCGX_Accept_r reports that
\* there are no more.
MaxRequests == 2

NoLoop == [accepted |-> 0, handled |-> 0, finished |-> 0, rc |-> 0]

NoCall == [fn |-> "none", code |-> 0, msg |-> "", done |-> FALSE,
           sent |-> <<>>]

Init ==
    /\ pc = "configure"
    /\ conf \in Configs
    /\ dataset = [pds |-> nullptr, name |-> "", type |-> 0]
    /\ dynconf = [prefix |-> "", suffix |-> ""]
    /\ live = {}
    /\ is_fcgi = FALSE
    /\ verbose = FALSE
    /\ req = NoRequest
    /\ out = <<>>
    /\ engine = NoEngine
    /\ ops = <<>>
    /\ peak = 0
    /\ vsimem = "none"
    /\ loop = NoLoop
    /\ call = NoCall

\* configure failing when there is neither a Filename nor a DPrefix.
ConfigureRequiresMode(ds, lv, cf) ==
    IF cf.Filename # ""
    THEN LET o == gdataset_open(ds, lv, cf.Filename)
         IN [ok |-> o.ok, dc |-> [prefix |-> "", suffix |-> ""]] @@ o
    ELSE [ok |-> cf.DPrefix # "",
          dc |-> [prefix |-> cf.DPrefix, suffix |-> cf.DSuffix]]
         @@ Untouched([ds EXCEPT !.type = 1], lv)

\* configure going on after a Filename that does not open.
ConfigureIgnoresOpen(ds, lv, cf) ==
    IF cf.Filename # ""
    THEN LET o == gdataset_open(ds, lv, cf.Filename)
         IN [ok |-> TRUE, dc |-> [prefix |-> "", suffix |-> ""]] @@ o
    ELSE [ok |-> TRUE,
          dc |-> [prefix |-> cf.DPrefix, suffix |-> cf.DSuffix]]
         @@ Untouched([ds EXCEPT !.type = 1], lv)

\* bool State::configure(char **config)
configure(ds, lv, cf) ==
    IF cf.Filename # ""
    THEN LET o == gdataset_open(ds, lv, cf.Filename)
         IN [ok |-> o.ok, dc |-> [prefix |-> "", suffix |-> ""]] @@ o
    ELSE [ok |-> TRUE,
          dc |-> [prefix |-> cf.DPrefix, suffix |-> cf.DSuffix]]
         @@ Untouched([ds EXCEPT !.type = 1], lv)

\* State state; if (!state.configure(...)) { GDALDestroy(); return 1; }
Configure ==
    /\ pc = "configure"
    /\ LET c == configure(dataset, live, conf)
       IN /\ dataset' = c.ds
          /\ live' = c.live
          /\ ops' = c.ops
          /\ peak' = c.peak
          /\ dynconf' = c.dc
          /\ pc' = IF c.ok THEN "accept0" ELSE "exited"
    /\ UNCHANGED <<conf, is_fcgi, verbose, req, out, engine, vsimem, loop,
                   call>>

\* auto is_fcgi = (FCGX_Accept_r(&request) >= 0); in CGI mode the one
\* request is the process environment.
AcceptFirst ==
    /\ pc = "accept0"
    /\ \E f \in BOOLEAN, rq \in Requests :
          /\ is_fcgi' = f
          /\ req' = rq
          /\ loop' = [loop EXCEPT !.accepted = 1,
                                  !.rc = IF f THEN 0 ELSE -1]
    /\ pc' = "request"
    /\ ops' = <<>>
    /\ peak' = Cardinality(live)
    /\ UNCHANGED <<conf, dataset, dynconf, live, verbose, out, engine, vsimem,
                   call>>

\* The loop body with verbose set by a request and never cleared again.
HandleStickyVerbose ==
    /\ pc = "request"
    /\ verbose' = (verbose \/ req.dbg # "")
    /\ \E r \in IF verbose \/ req.dbg # ""
                THEN {html_out(dataset, live, req, bb0, Extra(dataset, e),
                               vsimem) : bb0 \in Garbage, e \in LastErrors}
                ELSE {get_image(dataset, live, dynconf, req, FALSE,
                                vsimem, eo) : eo \in EngineOutcomes} :
          /\ dataset' = r.ds
          /\ live' = r.live
          /\ ops' = r.ops
          /\ peak' = r.peak
          /\ out' = r.out
          /\ engine' = r.engine
          /\ vsimem' = r.file
    /\ loop' = [loop EXCEPT !.handled = @ + 1]
    /\ pc' = "finish"
    /\ UNCHANGED <<conf, dynconf, is_fcgi, req, call>>

\* The loop body up to the finish: verbose = !cgi("dbg").empty(), then
\* html_out or get_image.
HandleRequest ==
    /\ pc = "request"
    /\ verbose' = (req.dbg # "")
    /\ \E r \in IF req.dbg # ""
                THEN {html_out(dataset, live, req, bb0, Extra(dataset, e),
                               vsimem) : bb0 \in Garbage, e \in LastErrors}
                ELSE {get_image(dataset, live, dynconf, req, req.dbg # "",
                                vsimem, eo) : eo \in EngineOutcomes} :
          /\ dataset' = r.ds
          /\ live' = r.live
          /\ ops' = r.ops
          /\ peak' = r.peak
          /\ out' = r.out
          /\ engine' = r.engine
          /\ vsimem' = r.file
    /\ loop' = [loop EXCEPT !.handled = @ + 1]
    /\ pc' = "finish"
    /\ UNCHANGED <<conf, dynconf, is_fcgi, req, call>>

\* The loop left after a request that was answered with an error page.
FinishEndsOnError ==
    /\ pc = "finish"
    /\ pc' = IF is_fcgi /\ ~(Len(out) = 1 /\ out[1].kind = "error")
             THEN "accept" ELSE "done"
    /\ loop' = IF is_fcgi THEN [loop EXCEPT !.finished = @ + 1] ELSE loop
    /\ req' = NoRequest
    /\ out' = <<>>
    /\ engine' = NoEngine
    /\ ops' = <<>>
    /\ peak' = Cardinality(live)
    /\ UNCHANGED <<conf, dataset, dynconf, live, is_fcgi, verbose, vsimem,
                   call>>

\* The loop condition without its test of is_fcgi.
FinishAlwaysLoops ==
    /\ pc = "finish"
    /\ pc' = "accept"
    /\ loop' = IF is_fcgi THEN [loop EXCEPT !.finished = @ + 1] ELSE loop
    /\ req' = NoRequest
    /\ out' = <<>>
    /\ engine' = NoEngine
    /\ ops' = <<>>
    /\ peak' = Cardinality(live)
    /\ UNCHANGED <<conf, dataset, dynconf, live, is_fcgi, verbose, vsimem,
                   call>>

\* if (is_fcgi) FCGX_Finish_r(&request); the Cgicc object of the request
\* goes out of scope; without FastCGI the loop ends here.
FinishRequest ==
    /\ pc = "finish"
    /\ pc' = IF is_fcgi THEN "accept" ELSE "done"
    /\ loop' = IF is_fcgi THEN [loop EXCEPT !.finished = @ + 1] ELSE loop
    /\ req' = NoRequest
    /\ out' = <<>>
    /\ engine' = NoEngine
    /\ ops' = <<>>
    /\ peak' = Cardinality(live)
    /\ UNCHANGED <<conf, dataset, dynconf, live, is_fcgi, verbose, vsimem,
                   call>>

\* while (is_fcgi && FCGX_Accept_r(&request) == 0): a request arrived
AcceptNext ==
    /\ pc = "accept"
    /\ loop.accepted < MaxRequests
    /\ \E rq \in Requests : req' = rq
    /\ loop' = [loop EXCEPT !.accepted = @ + 1, !.rc = 0]
    /\ pc' = "request"
    /\ UNCHANGED <<conf, dataset, dynconf, live, is_fcgi, verbose, out,
                   engine, ops, peak, vsimem, call>>

\* while (is_fcgi && FCGX_Accept_r(&request) == 0): no more requests
NoMoreRequests ==
    /\ pc = "accept"
    /\ pc' = "done"
    /\ loop' = [loop EXCEPT !.rc = -1]
    /\ UNCHANGED <<conf, dataset, dynconf, live, is_fcgi, verbose, req, out,
                   engine, ops, peak, vsimem, call>>

\* State::~State() at the end of realmain
Shutdown ==
    /\ pc = "done"
    /\ LET c == gdataset_clear(dataset, live)
       IN /\ dataset' = c.ds
          /\ live' = c.live
          /\ ops' = c.ops
          /\ peak' = c.peak
    /\ pc' = "exited"
    /\ UNCHANGED <<conf, dynconf, is_fcgi, verbose, req, out, engine, vsimem,
                   loop, call>>

Next ==
    \/ Configure
    \/ AcceptFirst
    \/ HandleRequest
    \/ FinishRequest
    \/ AcceptNext
    \/ NoMoreRequests
    \/ Shutdown

Spec == Init /\ [][Next]_vars

-----------------------------------------------------------------------------
(* ret_error called directly *)

\* Codes a caller can pass to ret_error.
Codes == {-1, 0, 200, 301, 400, 401, 403, 404, 418, 500, 503}

Messages == {"", "No such dataset"}

\* A call of ret_error(c, msg, code) about to be made.
InitCall ==
    /\ pc = "call"
    /\ conf = Config("", "", "")
    /\ dataset = [pds |-> nullptr, name |-> "", type |-> 0]
    /\ dynconf = [prefix |-> "", suffix |-> ""]
    /\ live = {}
    /\ is_fcgi = FALSE
    /\ verbose = FALSE
    /\ req = NoRequest
    /\ out = <<>>
    /\ engine = NoEngine
    /\ ops = <<>>
    /\ peak = 0
    /\ vsimem = "none"
    /\ loop = NoLoop
    /\ call \in {[fn |-> "ret_error", code |-> c, msg |-> m, done |-> FALSE,
                   sent |-> <<>>] : c \in Codes, m \in Messages}

\* The call returns: what it sent.
CallRetError ==
    /\ pc = "call"
    /\ call.fn = "ret_error"
    /\ call' = [call EXCEPT !.done = TRUE,
                            !.sent = ret_error(call.msg, call.code)]
    /\ pc' = "returned"
    /\ UNCHANGED <<conf, dataset, dynconf, live, is_fcgi, verbose, req, out,
                   engine, ops, peak, vsimem, loop>>

NextCalls ==
    \/ Next
    \/ CallRetError

\* The server together with direct calls of ret_error.
SpecCalls == (Init \/ InitCall) /\ [][NextCalls]_vars

-----------------------------------------------------------------------------
(* parse_bbox called directly *)

\* Texts handed to parse_bbox: those of the requests, "0,0,10,10",
\* "10,0,0,10", and numerals followed by a character that is no numeral.
ParseTexts ==
    BBoxTexts
    \cup {Join(<<0, 0, D(10), D(10)>>), Join(<<D(10), 0, 0, D(10)>>),
          <<Junk>>, <<Num(D(1)), Comma, Junk>>,
          Join(<<D(1), D(2)>>) \o <<Comma, Junk>>,
          Join(<<D(3), D(2), D(1)>>) \o <<Comma, Junk>>}

\* Arrays the callers hand to parse_bbox: get_image's initialized one,
\* html_out's uninitialized one.
ParseArrays == {DefaultBBox} \cup Garbage

\* A call of parse_bbox(bbval, bbox) about to be made.
InitParse ==
    /\ pc = "call"
    /\ conf = Config("", "", "")
    /\ dataset = [pds |-> nullptr, name |-> "", type |-> 0]
    /\ dynconf = [prefix |-> "", suffix |-> ""]
    /\ live = {}
    /\ is_fcgi = FALSE
    /\ verbose = FALSE
    /\ req = NoRequest
    /\ out = <<>>
    /\ engine = NoEngine
    /\ ops = <<>>
    /\ peak = 0
    /\ vsimem = "none"
    /\ loop = NoLoop
    /\ call \in {[fn |-> "parse_bbox", text |-> t, bbox0 |-> b,
                   done |-> FALSE, n |-> 0, bbox |-> b] :
                     t \in ParseTexts, b \in ParseArrays}

\* The call returns: the count, and the array as it is left.
CallParseBBox ==
    /\ pc = "call"
    /\ call.fn = "parse_bbox"
    /\ LET r == parse_bbox(call.text, call.bbox0)
       IN call' = [call EXCEPT !.done = TRUE, !.n = r.n, !.bbox = r.bbox]
    /\ pc' = "returned"
    /\ UNCHANGED <<conf, dataset, dynconf, live, is_fcgi, verbose, req, out,
                   engine, ops, peak, vsimem, loop>>

NextParse ==
    \/ Next
    \/ CallParseBBox

\* The server together with direct calls of parse_bbox.
SpecParse == (Init \/ InitParse) /\ [][NextParse]_vars

-----------------------------------------------------------------------------
(* Resolution by a resolver script *)

\* What a call of the script's query_handler can give: an error, a value
\* that is not a string, an empty string, a path.
ResolverResults ==
    {[k |-> "error", v |-> ""], [k |-> "nil", v |-> ""],
     [k |-> "string", v |-> ""]}
    \cup {[k |-> "string", v |-> p] : p \in {"pAs", "pBs", "pCs"}}

\* Requests of the runs with a resolver script.
ScriptRequests == {rq \in Requests : rq.dbg = "" /\ rq.ID = ""}

\* The resolution step: the raster for the resolver's result res, opened
\* through the dataset slot as a path built from an ID is.
script_resolve(ds, lv, rq, res, lim, bbox, file, eo) ==
    IF res.k = "error"
    THEN Return(Untouched(ds, lv), ret_error("Resolver failure", 500), file)
    ELSE IF res.k # "string" \/ res.v = ""
    THEN Return(Untouched(ds, lv), ret_error("No such dataset", 404), file)
    ELSE DynamicBranch(ds, lv, [prefix |-> "", suffix |-> ""],
                       [rq EXCEPT !.ID = res.v], FALSE, lim, bbox, file, eo)

\* The request handler of a run with a resolver script: the size and bbox
\* steps of get_image, then the resolution.
script_get_image(ds, lv, rq, res, file, eo) ==
    IF rq.size = <<>>
    THEN Return(Untouched(ds, lv),
                ret_error("Missing size parameter", DefaultCode), file)
    ELSE
    LET sz == sscanf_size(rq.size, DefaultSize, DefaultSize)
    IN IF sz.n # 2
       THEN Return(Untouched(ds, lv),
                   ret_error("Can't parse size", DefaultCode), file)
       ELSE
       LET pb == BBoxParam(rq)
       IN IF pb.n # 4
          THEN Return(Untouched(ds, lv),
                      ret_error("Can't parse bbox", DefaultCode), file)
          ELSE script_resolve(ds, lv, rq, res, LimitSize(sz.xsz, sz.ysz),
                              pb.bbox, file, eo)

\* A run configured with a resolver script, waiting for its first request.
InitScript ==
    /\ pc = "script_accept"
    /\ conf = Config("", "", "")
    /\ dataset = [pds |-> nullptr, name |-> "", type |-> 1]
    /\ dynconf = [prefix |-> "", suffix |-> ""]
    /\ live = {}
    /\ is_fcgi = TRUE
    /\ verbose = FALSE
    /\ req = NoRequest
    /\ out = <<>>
    /\ engine = NoEngine
    /\ ops = <<>>
    /\ peak = 0
    /\ vsimem = "none"
    /\ loop = NoLoop
    /\ call = NoCall

\* A request arrives.
ScriptAccept ==
    /\ pc = "script_accept"
    /\ loop.accepted < MaxRequests
    /\ \E rq \in ScriptRequests : req' = rq
    /\ loop' = [loop EXCEPT !.accepted = @ + 1]
    /\ out' = <<>>
    /\ engine' = NoEngine
    /\ ops' = <<>>
    /\ peak' = Cardinality(live)
    /\ call' = NoCall
    /\ pc' = "script_request"
    /\ UNCHANGED <<conf, dataset, dynconf, live, is_fcgi, verbose, vsimem>>

\* The request is handled: query_handler is called with the query string
\* when the size and bbox steps passed, and gives res.
ScriptHandle ==
    /\ pc = "script_request"
    /\ \E res \in ResolverResults, eo \in {"ok", "none"} :
          LET r == script_get_image(dataset, live, req, res, vsimem, eo)
              invoked == req.size # <<>>
                         /\ sscanf_size(req.size, DefaultSize,
                                        DefaultSize).n = 2
                         /\ BBoxParam(req).n = 4
          IN /\ dataset' = r.ds
             /\ live' = r.live
             /\ ops' = r.ops
             /\ peak' = r.peak
             /\ out' = r.out
             /\ engine' = r.engine
             /\ vsimem' = r.file
             /\ call' = IF invoked
                        THEN [fn |-> "query_handler", code |-> 0,
                              msg |-> "", done |-> TRUE, sent |-> <<>>,
                              arg |-> req, res |-> res]
                        ELSE NoCall
    /\ loop' = [loop EXCEPT !.handled = @ + 1]
    /\ pc' = "script_accept"
    /\ UNCHANGED <<conf, dynconf, is_fcgi, verbose, req>>

NextScript ==
    \/ ScriptAccept
    \/ ScriptHandle

\* The server run with a resolver script.
SpecScript == InitScript /\ [][NextScript]_vars

-----------------------------------------------------------------------------
(* Vocabulary of the properties *)

\* A request has been handled and not yet finished.
Handled == pc = "finish"

\* The server runs with a prefix and suffix (dynamic datasets).
DynamicMode == dataset.type = 1 /\ dynconf.prefix # ""

\* The path a request's ID names.
PathOf(rq) == dynconf.prefix \o rq.ID \o dynconf.suffix

\* The ints the size text parses to, and the number of values parsed.
SizeOf(rq) == sscanf_size(rq.size, DefaultSize, DefaultSize)

SizeFails(rq) == rq.size = <<>> \/ SizeOf(rq).n # 2

BBoxFails(rq) == rq.bbox # <<>> /\ parse_bbox(rq.bbox, DefaultBBox).n # 4

\* The text is four numerals separated by commas.
FourNumerals(text) ==
    /\ Len(text) = 7
    /\ \A i \in {1, 3, 5, 7} : text[i].k = "num"
    /\ \A i \in {2, 4, 6} : text[i].k = ","

\* The four values of such a text.
ValuesOf(text) == <<text[1].v, text[3].v, text[5].v, text[7].v>>

\* The box as it stands at the extent check of the dynamic branch.
BoxAtCheck(rq, xsize, ysize) ==
    LET b  == IF rq.bbox = <<>> THEN DefaultBBox
              ELSE parse_bbox(rq.bbox, DefaultBBox).bbox
        b1 == IF b[1] = D(-180) /\ b[2] = D(180)
              THEN <<0, 0, D(xsize), D(ysize)>> ELSE b
    IN [i \in 1..4 |-> D(static_cast_int(b1[i]))]

OutsideExtent(b, xsize, ysize) ==
    b[1] < 0 \/ b[2] < 0 \/ b[3] > D(xsize) \/ b[4] > D(ysize)

\* A non-verbose request that gets as far as naming a path.
Resolves(rq) ==
    /\ rq.dbg = ""
    /\ ~SizeFails(rq)
    /\ ~BBoxFails(rq)
    /\ rq.ID # ""

IsErrorPage(o) == Len(o) = 1 /\ o[1].kind = "error"
IsDiagPage(o)  == Len(o) = 1 /\ o[1].kind = "diag"
IsImage(o)     == o = <<Header200, ImageBytes>>
IsRawImage(o)  == o = <<ImageBytes>>

ErrorPage(code, text, msg) == <<Chunk("error", code, text, msg)>>

-----------------------------------------------------------------------------
(* C1..C10 *)

\* C1: in dynamic mode, a request that resolves to the path of the open
\* raster reuses the handle with no open and no close; one that resolves
\* to another path closes the old handle and then opens the new path.
C1_ReuseOrCloseThenOpen ==
    [][(pc = "request" /\ pc' = "finish" /\ DynamicMode /\ Resolves(req)
        /\ dataset.pds # nullptr)
       => IF PathOf(req) = dataset.name
          THEN /\ ops' = <<>>
               /\ dataset' = dataset
               /\ live' = live
               /\ engine'.called => engine'.src = dataset.pds
          ELSE /\ Len(ops') = 2
               /\ ops'[1] = CloseEv(dataset.pds)
               /\ ops'[2].op = "open"
               /\ ops'[2].path = PathOf(req)]_vars

\* C1 witness: a request has just replaced an open raster by another one.
C1_Witness ==
    /\ Handled /\ DynamicMode
    /\ Len(ops) = 2 /\ ops[1].op = "close" /\ ops[2].op = "open"
    /\ ops[2].h # nullptr /\ dataset.name = PathOf(req)

\* C2: at most one raster handle is open at any time, in every mode.
C2_AtMostOneHandle == Cardinality(live) <= 1 /\ peak <= 1

\* C2 witness: a second raster has been opened after the first was closed.
C2_Witness ==
    /\ Len(ops) = 2 /\ ops[1].op = "close" /\ ops[2].h # nullptr
    /\ Cardinality(live) = 1

\* C3: every handled request is answered with exactly one of: the
\* diagnostic page, an error page, image bytes (after the 200 header with
\* the image content type, or alone when RAW is set), whatever the
\* raster engine leaves behind.
C3_ExactlyOneResponseKind ==
    Handled =>
        \/ IsDiagPage(out)
        \/ IsErrorPage(out)
        \/ IsImage(out)
        \/ (req.RAW # "" /\ IsRawImage(out))

\* The failures of a non-verbose request that C4 lists.
Fails(rq) ==
    \/ SizeFails(rq)
    \/ BBoxFails(rq)
    \/ dataset.type = 1 /\ dynconf.prefix = ""
    \/ /\ DynamicMode
       /\ \/ rq.ID = ""
          \/ PathOf(rq) \notin DOMAIN Rasters
          \/ LET r == Rasters[PathOf(rq)]
             IN OutsideExtent(BoxAtCheck(rq, r.xsize, r.ysize),
                              r.xsize, r.ysize)

\* C4: a non-verbose request in which size validation, bbox validation,
\* the ID check, the dataset open, the extent check or the mode dispatch
\* fails gets exactly one error page and nothing else, and the raster
\* engine is not invoked.
C4_FailureShortCircuits ==
    (Handled /\ req.dbg = "" /\ Fails(req))
        => IsErrorPage(out) /\ ~engine.called

\* C4 witness: a request with a box outside the raster was turned down.
C4_Witness ==
    /\ Handled /\ req.dbg = "" /\ DynamicMode /\ ~SizeFails(req)
    /\ ~BBoxFails(req) /\ req.ID # "" /\ Fails(req)
    /\ PathOf(req) \in DOMAIN Rasters
    /\ IsErrorPage(out)

\* C5: a missing size, an unparsable size and a malformed bbox of a
\* non-verbose request are each reported with status 400 Bad Request.
C5_ParseFailuresAre400 ==
    (Handled /\ req.dbg = "") =>
        /\ req.size = <<>>
            => out = ErrorPage(400, "Bad Request", "Missing size parameter")
        /\ (req.size # <<>> /\ SizeOf(req).n # 2)
            => out = ErrorPage(400, "Bad Request", "Can't parse size")
        /\ (~SizeFails(req) /\ BBoxFails(req))
            => IsErrorPage(out) /\ out[1].code = 400

\* C6: in dynamic mode a non-verbose request with a valid size, an ID
\* that opens a raster of W x H pixels and no bbox uses the box
\* (0,0,W,H) and reaches the raster engine.
C6_DefaultIsFullRaster ==
    (Handled /\ DynamicMode /\ req.dbg = "" /\ ~SizeFails(req)
     /\ req.ID # "" /\ PathOf(req) \in DOMAIN Rasters /\ req.bbox = <<>>)
        => /\ engine.called
           /\ engine.bbox = <<0, 0, D(Rasters[PathOf(req)].xsize),
                              D(Rasters[PathOf(req)].ysize)>>

\* C7: a supplied bbox that is not four numerals is a parse failure: an
\* error page is written and the raster engine is not invoked.
C7_NotFourValuesRejected ==
    (Handled /\ req.dbg = "" /\ ~SizeFails(req) /\ req.bbox # <<>>
     /\ ~FourNumerals(req.bbox))
        => IsErrorPage(out) /\ ~engine.called

\* A four-numeral box with a corner outside the raster of the request.
BoxOutside(rq) ==
    /\ FourNumerals(rq.bbox)
    /\ PathOf(rq) \in DOMAIN Rasters
    /\ OutsideExtent(ValuesOf(rq.bbox), Rasters[PathOf(rq)].xsize,
                     Rasters[PathOf(rq)].ysize)

\* C8 as stated: in dynamic mode a bbox with minX < 0, minY < 0, maxX > W
\* or maxY > H is rejected with status 400 and the message
\* "Bad bbox values", and the raster engine is not invoked.
C8_AsStated ==
    (Handled /\ DynamicMode /\ req.dbg = "" /\ ~SizeFails(req)
     /\ req.ID # "" /\ BoxOutside(req))
        => /\ out = ErrorPage(400, "Bad Request", "Bad bbox values")
           /\ ~engine.called

\* C8 amended: in dynamic mode, with the raster of W x H pixels open, a
\* request whose box as it stands at the extent check (parsed, the default
\* substituted, each component truncated to an int) has minX < 0,
\* minY < 0, maxX > W or maxY > H is rejected with status 400 and the
\* message "Malformed bbox", and the raster engine is not invoked.
C8_OutsideExtentRejected ==
    (Handled /\ DynamicMode /\ Resolves(req)
     /\ PathOf(req) \in DOMAIN Rasters
     /\ LET r == Rasters[PathOf(req)]
        IN OutsideExtent(BoxAtCheck(req, r.xsize, r.ysize),
                         r.xsize, r.ysize))
        => /\ out = ErrorPage(400, "Bad Request", "Malformed bbox")
           /\ ~engine.called

\* C8 witness: a box reaching beyond the top of the open raster was rejected.
C8_Witness ==
    /\ Handled /\ DynamicMode /\ Resolves(req) /\ BoxOutside(req)
    /\ ValuesOf(req.bbox)[4] > D(Rasters[PathOf(req)].ysize)
    /\ dataset.pds # nullptr /\ dataset.name = PathOf(req)
    /\ out = ErrorPage(400, "Bad Request", "Malformed bbox")

\* C9: the clamp is all-or-nothing: ints (w,h) with 1 <= w,h <= 2048 are
\* used unchanged, and if w > 2048 or h > 2048 both become 1024.
C9_ClampAllOrNothing ==
    (Handled /\ engine.called) =>
        LET w == SizeOf(req).xsz
            h == SizeOf(req).ysz
        IN /\ (1 <= w /\ w <= MaxSize /\ 1 <= h /\ h <= MaxSize)
                => engine.outsize = <<U(0, w), U(0, h)>>
           /\ (w > MaxSize \/ h > MaxSize)
                => engine.outsize = <<U(0, 1024), U(0, 1024)>>

\* C9 witness: a width over the limit with a height under it reached the
\* engine as 1024 x 1024.
C9_Witness ==
    /\ Handled /\ engine.called
    /\ SizeOf(req).xsz > MaxSize /\ SizeOf(req).ysz = 1
    /\ engine.outsize = <<U(0, 1024), U(0, 1024)>>

\* C10: whenever the raster engine is invoked, the requested output width
\* and height are both in 1..2048.
C10_OutputSizeInRange ==
    (Handled /\ engine.called) =>
        \A i \in {1, 2} :
            /\ engine.outsize[i].hi = 0
            /\ engine.outsize[i].lo >= 1
            /\ engine.outsize[i].lo <= MaxSize

-----------------------------------------------------------------------------
(* C11..C20 *)

\* C11: in dynamic mode a request without an ID, or with an empty one, is
\* answered 400 Bad Request "Missing ID element"; one whose path
\* prefix + ID + suffix cannot be opened is answered 404 Not Found
\* "No such dataset".
C11_ResolutionFailures ==
    (Handled /\ DynamicMode /\ req.dbg = "" /\ ~SizeFails(req)
        /\ ~BBoxFails(req))
    => /\ req.ID = ""
          => out = ErrorPage(400, "Bad Request", "Missing ID element")
       /\ (req.ID # "" /\ PathOf(req) \notin DOMAIN Rasters)
          => out = ErrorPage(404, "Not Found", "No such dataset")

\* A request whose path does not open was answered 404.
C11_Witness ==
    /\ Handled /\ DynamicMode /\ req.ID # ""
    /\ PathOf(req) \notin DOMAIN Rasters
    /\ out = ErrorPage(404, "Not Found", "No such dataset")

\* A request without ID was answered 400.
C11_WitnessMissingID ==
    /\ Handled /\ DynamicMode /\ req.ID = ""
    /\ out = ErrorPage(400, "Bad Request", "Missing ID element")

\* C12: a request with a non-empty dbg is answered with the diagnostic
\* page and nothing else, whatever its other parameters and whatever the
\* configuration, and the raster engine is not called for it; a request
\* whose dbg is absent or empty is never answered with that page.
C12_DiagnosticIffDbg ==
    Handled
    => /\ req.dbg # "" => (IsDiagPage(out) /\ ~engine.called)
       /\ req.dbg = "" => \A i \in 1..Len(out) : out[i].kind # "diag"

\* A verbose request with no size at all gets the page.
C12_Witness ==
    /\ Handled /\ req.dbg # "" /\ req.size = <<>> /\ IsDiagPage(out)

\* C13: a non-verbose request whose image was produced is answered, when
\* RAW is given and not empty, with the image bytes alone; otherwise with
\* the status 200 header block of content type image/jpeg followed by the
\* image bytes.
C13_RawOrHeaderThenImage ==
    (Handled /\ req.dbg = "" /\ engine.called /\ engine.file = "ok")
    => IF req.RAW # ""
       THEN out = <<ImageBytes>>
       ELSE out = <<Header200, ImageBytes>>

C13_Witness ==
    /\ Handled /\ req.dbg = "" /\ engine.called /\ engine.file = "ok"
    /\ req.RAW # "" /\ out = <<ImageBytes>>

\* Where the counts of the loop stand at each position of a FastCGI run:
\* the request in hand is the only one not yet dispatched or finished.
LoopOrder ==
    (is_fcgi /\ loop.accepted >= 1)
    => /\ pc \in {"request", "finish", "accept", "done", "exited"}
       /\ pc = "request" => /\ loop.handled = loop.accepted - 1
                            /\ loop.finished = loop.accepted - 1
       /\ pc = "finish" => /\ loop.handled = loop.accepted
                           /\ loop.finished = loop.accepted - 1
       /\ pc \in {"accept", "done", "exited"}
             => /\ loop.handled = loop.accepted
                /\ loop.finished = loop.accepted

\* C14: under FastCGI every accepted request is dispatched to its handler,
\* which writes the response, then finished with FCGX_Finish_r exactly
\* once, and only then is the next request accepted; at most one request
\* is in handling; and whatever the response, an error page included, the
\* step after it finishes the request and returns to FCGX_Accept_r.
C14_OneRequestAtATime ==
    /\ []LoopOrder
    /\ [][(pc = "finish" /\ is_fcgi)
            => (pc' = "accept" /\ loop'.finished = loop.finished + 1)]_vars
    /\ [][(is_fcgi /\ loop'.accepted = loop.accepted + 1)
            => (pc = "accept" /\ loop.finished = loop.accepted)]_vars

\* A second request is in hand, answered with an error page, after the
\* first was finished once.
C14_Witness ==
    /\ Handled /\ is_fcgi /\ IsErrorPage(out)
    /\ loop.accepted = 2 /\ loop.handled = 2 /\ loop.finished = 1

\* C15: without FastCGI (the first FCGX_Accept_r fails) the loop body runs
\* exactly once and the loop ends; under FastCGI the loop ends at the
\* first FCGX_Accept_r that reports no request, with no handler run after
\* it.
C15_LoopTermination ==
    /\ (~is_fcgi /\ loop.accepted >= 1)
       => /\ pc \in {"request", "finish", "done", "exited"}
          /\ loop.accepted = 1
          /\ loop.finished = 0
          /\ loop.handled = IF pc = "request" THEN 0 ELSE 1
    /\ (is_fcgi /\ loop.rc # 0)
       => /\ pc \in {"done", "exited"}
          /\ loop.handled = loop.accepted

\* A run without FastCGI has left the loop after its one request.
C15_Witness ==
    /\ pc = "done" /\ ~is_fcgi /\ loop.rc = -1 /\ loop.handled = 1

\* A FastCGI run has left the loop at the accept after its first request.
C15_WitnessPersistent ==
    /\ pc = "done" /\ is_fcgi /\ loop.rc = -1 /\ loop.handled = 1

\* The text that goes with a status code.
StatusText(c) ==
    CASE c = 400 -> "Bad Request"
      [] c = 404 -> "Not Found"
      [] c = 500 -> "Internal Server error"

\* An error page with a code of the table and that code's text.
WellFormedError(e) ==
    /\ e.kind = "error"
    /\ e.code \in {400, 404, 500}
    /\ e.text = StatusText(e.code)

\* C16: every error page the server sends carries one of the codes 400,
\* 404, 500 with the text of that code; and ret_error called with a code
\* outside these three sends 404 Not Found, called with one of them sends
\* that code, in both cases with the message it was given.
C16_ErrorStatusFromTable ==
    /\ Handled
       => \A i \in 1..Len(out) :
             out[i].kind = "error" => WellFormedError(out[i])
    /\ call.done
       => /\ Len(call.sent) = 1
          /\ WellFormedError(call.sent[1])
          /\ call.sent[1].msg = call.msg
          /\ call.sent[1].code =
                IF call.code \in {400, 404, 500} THEN call.code ELSE 404

\* ret_error was called with a code outside the table and sent 404.
C16_Witness ==
    /\ call.done /\ call.code = 503
    /\ call.sent = ErrorPage(404, "Not Found", call.msg)

\* The server sent a 500 page.
C16_WitnessServer ==
    /\ Handled /\ IsErrorPage(out) /\ out[1].code = 500
    /\ out[1].text = "Internal Server error"

\* C17: once a request for which GDALTranslate was called has been
\* handled, /vsimem/out.jpg is gone, whether or not the file was sent; and
\* it does not exist when a request is accepted or about to be handled.
C17_OutputFileRemoved ==
    /\ (Handled /\ engine.called) => vsimem = "none"
    /\ pc \in {"accept0", "accept", "request"} => vsimem = "none"

\* The engine left a file too large to send, and it has been removed.
C17_Witness ==
    /\ Handled /\ engine.called /\ engine.file = "big"
    /\ out = <<Header200>> /\ vsimem = "none"

\* The configuration names no raster, no prefix and no suffix.
NothingConfigured ==
    conf.Filename = "" /\ conf.DPrefix = "" /\ conf.DSuffix = ""

\* C18 as stated: with nothing configured the process ends at startup,
\* before the accept loop, and no request is handled.
C18_AsStated ==
    (NothingConfigured /\ pc # "configure")
    => (pc = "exited" /\ loop.accepted = 0 /\ loop.handled = 0)

\* C18: with nothing configured, startup does not fail: the process does
\* not end before a request was accepted, no raster is ever opened, the
\* raster engine is never called, and every non-verbose request whose
\* size and bbox parse is answered 500 "Configuration failure".
C18_NoModeAnswers500 ==
    (NothingConfigured /\ pc # "configure")
    => /\ pc = "exited" => loop.accepted >= 1
       /\ live = {} /\ ~engine.called
       /\ (Handled /\ req.dbg = "" /\ ~SizeFails(req) /\ ~BBoxFails(req))
          => out = ErrorPage(500, "Internal Server error",
                             "Configuration failure")

\* A request with an ID was answered 500 under an empty configuration.
C18_Witness ==
    /\ NothingConfigured /\ Handled /\ req.ID # ""
    /\ out = ErrorPage(500, "Internal Server error", "Configuration failure")

\* The configuration names a raster and opening it failed in configure.
OpenFailedAtStartup ==
    /\ conf.Filename # ""
    /\ conf.Filename \notin DOMAIN Rasters
    /\ pc # "configure"

\* C19 as stated: after a failed open of the configured raster the server
\* takes requests and answers each of them with status 500.
C19_AsStated ==
    OpenFailedAtStartup
    => /\ pc = "exited" => loop.accepted >= 1
       /\ (Handled /\ req.dbg = "")
          => (IsErrorPage(out) /\ out[1].code = 500)

\* C19: after a failed open of the configured raster the process ends in
\* configure: no request is accepted, none is handled, nothing is sent
\* and no raster is open.
C19_StartupFailsOnOpen ==
    OpenFailedAtStartup
    => /\ pc = "exited"
       /\ loop.accepted = 0 /\ loop.handled = 0
       /\ out = <<>> /\ live = {} /\ dataset.pds = nullptr

\* The process has ended at startup on a raster that does not open.
C19_Witness ==
    /\ OpenFailedAtStartup /\ pc = "exited" /\ loop.accepted = 0
    /\ ops = <<OpenEv(conf.Filename, nullptr)>>

\* The box a request asks for: its four values, or the default.
RequestBox(rq) == IF rq.bbox = <<>> THEN DefaultBBox ELSE ValuesOf(rq.bbox)

\* The numeral a (in millionths) has exactly the value of the double x.
SameValue(a, x) == a * Scale = x * 1000000

C20_WitnessBeyondRaster ==
    /\ Handled /\ dataset.type = 0 /\ engine.called
    /\ engine.args = <<0, 190000000, 201000000, 0>>

\* A request without bbox went to the engine with the default window.
C20_WitnessDefault ==
    /\ Handled /\ dataset.type = 0 /\ engine.called /\ req.bbox = <<>>
    /\ engine.args = <<-180000000, 90000000, 180000000, -90000000>>

-----------------------------------------------------------------------------
(* C21..C30 *)

\* The state as configure leaves it: the state of a run with no earlier
\* request.
Fresh == configure([pds |-> nullptr, name |-> "", type |-> 0], {}, conf)

\* What GDALTranslate produced for the request in hand, if it was called.
EngineOutcome == IF engine.called THEN engine.file ELSE "ok"

\* The responses a request can get when it is the first of a run, with
\* the same outcome of GDALTranslate.
FreshResponses(rq) ==
    IF rq.dbg # ""
    THEN {html_out(Fresh.ds, Fresh.live, rq, bb0, Extra(Fresh.ds, e),
                   "none").out : bb0 \in Garbage, e \in LastErrors}
    ELSE {get_image(Fresh.ds, Fresh.live, Fresh.dc, rq, FALSE, "none",
                    EngineOutcome).out}

\* C21 as stated: whatever requests came before, the response to a
\* request is one it gets as the first request of a run.
C21_AsStated == Handled => out \in FreshResponses(req)

\* C21: whatever requests came before, the response to a non-verbose
\* request is the one it gets as the first request of a run; the page of
\* a verbose request is determined by the request, the dataset slot
\* (whose path and handle it shows) and GDAL's last error message.
C21_HistoryOnlyThroughSlot ==
    Handled
    => IF req.dbg = ""
       THEN out \in FreshResponses(req)
       ELSE out \in {html_out(dataset, live, req, bb0, Extra(dataset, e),
                              "none").out :
                        bb0 \in Garbage, e \in LastErrors}

\* A second request was served from the raster an earlier one opened.
C21_Witness ==
    /\ Handled /\ DynamicMode /\ loop.accepted = 2 /\ req.dbg = ""
    /\ engine.called /\ ops = <<>> /\ IsImage(out)

\* A verbose second request shows the path an earlier request opened.
C21_WitnessVerbose ==
    /\ Handled /\ DynamicMode /\ loop.accepted = 2 /\ req.dbg # ""
    /\ IsDiagPage(out) /\ out[1].extra.name = "pAs"
    /\ out[1].extra.pds # nullptr

C22_WitnessError ==
    /\ pc = "script_accept" /\ call.fn = "query_handler"
    /\ call.res.k = "error" /\ IsErrorPage(out) /\ out[1].code = 500

\* A result that is not a string was answered 404.
C22_WitnessNil ==
    /\ pc = "script_accept" /\ call.fn = "query_handler"
    /\ call.res.k = "nil" /\ IsErrorPage(out) /\ out[1].code = 404

\* A call of parse_bbox has returned.
Parsed == call.fn = "parse_bbox" /\ call.done

RECURSIVE LeadingNumerals(_, _)
\* The number of numerals, separated by commas, a text has from position
\* p on before its first token that is not one.
LeadingNumerals(text, p) ==
    IF p > Len(text) \/ text[p].k # "num" THEN 0
    ELSE IF p + 1 <= Len(text) /\ text[p + 1].k = ","
    THEN 1 + LeadingNumerals(text, p + 2)
    ELSE 1

\* C23: parse_bbox returns the number of leading numerals of the text and
\* stops at the first token that is not one: a text with k < 4 leading
\* numerals returns k ("a,b" returns 0), and "0,0,10,10" returns 4 with
\* the values 0, 0, 10, 10.
C23_CountOfLeadingNumerals ==
    Parsed
    => /\ LeadingNumerals(call.text, 1) < 4
          => call.n = LeadingNumerals(call.text, 1)
       /\ call.text = Join(<<0, 0, D(10), D(10)>>)
          => (call.n = 4 /\ call.bbox = <<0, 0, D(10), D(10)>>)

\* The order violations of a box <<minX, minY, maxX, maxY>>.
XViolation(v) == v[3] <= v[1]
YViolation(v) == v[4] <= v[2]

\* C24: for a text of four numerals with maxX <= minX or maxY <= minY,
\* parse_bbox returns 1 when the order of X is violated and 0 when only
\* that of Y is, so never 4 and never the same value for the two; and
\* get_image answers a request with such a bbox with the error page
\* "Can't parse bbox" and does not call the raster engine.
C24_OrderViolationsRejected ==
    /\ (Parsed /\ FourNumerals(call.text))
       => LET v == ValuesOf(call.text)
          IN /\ XViolation(v) => call.n = 1
             /\ (~XViolation(v) /\ YViolation(v)) => call.n = 0
             /\ (XViolation(v) \/ YViolation(v)) => call.n # 4
    /\ (Handled /\ req.dbg = "" /\ ~SizeFails(req)
          /\ FourNumerals(req.bbox)
          /\ (XViolation(ValuesOf(req.bbox))
                \/ YViolation(ValuesOf(req.bbox))))
       => /\ IsErrorPage(out)
          /\ out[1].msg = "Can't parse bbox"
          /\ ~engine.called

\* parse_bbox returned 0 for a box whose Y order alone is violated.
C24_Witness ==
    /\ Parsed /\ FourNumerals(call.text)
    /\ ~XViolation(ValuesOf(call.text)) /\ YViolation(ValuesOf(call.text))
    /\ call.n = 0

\* parse_bbox returned 1 for "10,0,0,10".
C24_WitnessX ==
    /\ Parsed /\ call.text = Join(<<D(10), 0, 0, D(10)>>) /\ call.n = 1

\* get_image rejected a request whose box has its Y order alone violated.
C24_WitnessRejected ==
    /\ Handled /\ req.dbg = "" /\ FourNumerals(req.bbox)
    /\ ~XViolation(ValuesOf(req.bbox)) /\ YViolation(ValuesOf(req.bbox))
    /\ IsErrorPage(out) /\ out[1].msg = "Can't parse bbox"

\* C25: whenever the raster engine is called, the box in use (in the
\* dynamic branch: the box after the conversion to ints) has maxX > minX
\* and maxY > minY, and a -srcwin window has positive width and height.
C25_PositiveWindow ==
    (Handled /\ engine.called)
    => /\ engine.bbox[3] > engine.bbox[1]
       /\ engine.bbox[4] > engine.bbox[2]
       /\ engine.win = "-srcwin"
          => (engine.args[3] > 0 /\ engine.args[4] > 0)

\* The request's box has four numerals in order, and a minX or a minY
\* strictly between -1 and 0.
SlightlyNegative(rq) ==
    /\ FourNumerals(rq.bbox)
    /\ ~BBoxFails(rq)
    /\ \E i \in {1, 2} : -Scale < ValuesOf(rq.bbox)[i] /\ ValuesOf(rq.bbox)[i] < 0

\* C26 as stated: in the pixel-space modes each component of the box is
\* floored before the extent check, so a request whose minX or minY is
\* strictly between -1 and 0 (it becomes -1) is rejected with status 400.
C26_AsStated ==
    (Handled /\ DynamicMode /\ Resolves(req)
     /\ PathOf(req) \in DOMAIN Rasters /\ SlightlyNegative(req))
        => /\ IsErrorPage(out) /\ out[1].code = 400
           /\ ~engine.called

\* C26 amended: each component is truncated toward zero before the extent
\* check, so a minX or minY strictly between -1 and 0 becomes 0: the request
\* is rejected with 400 "Malformed bbox" only if another component of the
\* truncated box is outside the raster, and otherwise the engine is called
\* with the truncated box.
C26_TruncatedTowardZero ==
    (Handled /\ DynamicMode /\ Resolves(req)
     /\ PathOf(req) \in DOMAIN Rasters /\ SlightlyNegative(req))
        => LET r == Rasters[PathOf(req)]
               v == ValuesOf(req.bbox)
               t == [i \in 1..4 |->
                        IF -Scale < v[i] /\ v[i] < 0 THEN 0
                        ELSE IF v[i] >= 0 THEN D(v[i] \div Scale)
                        ELSE -D((-v[i]) \div Scale)]
           IN IF OutsideExtent(t, r.xsize, r.ysize)
              THEN /\ out = ErrorPage(400, "Bad Request", "Malformed bbox")
                   /\ ~engine.called
              ELSE engine.called /\ engine.bbox = t

\* C26 witness: a box with minX = -1/Scale was served as if minX were 0.
C26_Witness ==
    /\ Handled /\ DynamicMode /\ Resolves(req) /\ SlightlyNegative(req)
    /\ ValuesOf(req.bbox)[1] = -1
    /\ engine.called /\ engine.bbox[1] = 0
    /\ engine.bbox[3] > 0 /\ engine.bbox[4] > 0

\* The four values of the request's box are whole numbers.
Integral(rq) ==
    FourNumerals(rq.bbox) /\ \A i \in 1..4 : ValuesOf(rq.bbox)[i] % Scale = 0

\* C27: in dynamic mode, whenever the engine is called for a raster of
\* height H, with (minX, minY, maxX, maxY) the box that passed the extent
\* check, the window is -srcwin minX, H - maxY, maxX - minX, maxY - minY;
\* for a request box of whole numbers that box is the request's own.
C27_SrcWinFlipsY ==
    (Handled /\ DynamicMode /\ engine.called)
    => LET r == Rasters[PathOf(req)]
           b == BoxAtCheck(req, r.xsize, r.ysize)
       IN /\ engine.win = "-srcwin"
          /\ SameValue(engine.args[1], b[1])
          /\ SameValue(engine.args[2], D(r.ysize) - b[4])
          /\ SameValue(engine.args[3], b[3] - b[1])
          /\ SameValue(engine.args[4], b[4] - b[2])
          /\ (Integral(req) /\ ~IsDefaultBBox(ValuesOf(req.bbox)))
             => b = ValuesOf(req.bbox)

\* C27 witness: the box 1,1,2,3 on the raster 200 x 190 gave the window
\* 1, 187, 1, 2.
C27_Witness ==
    /\ Handled /\ DynamicMode /\ engine.called
    /\ PathOf(req) = "pBs"
    /\ req.bbox = Join(<<D(1), D(1), D(2), D(3)>>)
    /\ engine.args = <<1000000, 187000000, 1000000, 2000000>>

\* The request is verbose, or fails the parsing of its size or of its box,
\* or (where the ID is looked at) the ID check.
StopsBeforeOpen(rq) ==
    \/ rq.dbg # ""
    \/ SizeFails(rq)
    \/ BBoxFails(rq)
    \/ rq.ID = ""

\* C28: handling a request that is verbose, or that fails size parsing,
\* bbox parsing or the ID check, leaves the dataset slot as it was: the
\* same handle, the same recorded path, the same set of open rasters, and
\* no open or close performed.
C28_SlotUntouched ==
    [][(pc = "request" /\ pc' = "finish" /\ StopsBeforeOpen(req))
        => /\ dataset' = dataset
           /\ live' = live
           /\ ops' = <<>>]_vars

\* C28 witness: a request without ID was refused while a raster named by
\* an earlier request stayed open under its recorded path.
C28_Witness ==
    /\ Handled /\ DynamicMode /\ req.dbg = "" /\ req.ID = ""
    /\ ~SizeFails(req) /\ ~BBoxFails(req)
    /\ out = ErrorPage(400, "Bad Request", "Missing ID element")
    /\ dataset.pds # nullptr /\ dataset.name = "pAs"
    /\ ops = <<>>

\* C28 witness: a verbose request was answered while a raster stayed open.
C28_WitnessVerbose ==
    /\ Handled /\ DynamicMode /\ req.dbg # "" /\ req.ID = "B"
    /\ dataset.pds # nullptr /\ dataset.name = "pAs"
    /\ ops = <<>>

\* The GDAL calls of a step include an open.
HasOpen(evs) == \E i \in 1..Len(evs) : evs[i].op = "open"

\* C29: a handle in the slot was opened from the recorded path (a step
\* that puts a handle in the slot ends with the open of the recorded path
\* returning that handle; a step that keeps the handle keeps the path), and
\* in dynamic mode the engine reads the handle in the slot, whose recorded
\* path is the path the request resolves to; a request served without an
\* open found that path recorded before it was handled.
C29_HandleMatchesPath ==
    [][/\ (dataset'.pds # nullptr /\ dataset'.pds = dataset.pds
           /\ ~HasOpen(ops'))
          => dataset'.name = dataset.name
       /\ (dataset'.pds # nullptr
           /\ (dataset'.pds # dataset.pds \/ HasOpen(ops')))
          => /\ ops' # <<>>
             /\ ops'[Len(ops')] = OpenEv(dataset'.name, dataset'.pds)
       /\ (pc = "request" /\ pc' = "finish" /\ DynamicMode
           /\ engine'.called)
          => /\ engine'.src = dataset'.pds
             /\ dataset'.name = PathOf(req)
             /\ ~HasOpen(ops')
                => (dataset.name = PathOf(req)
                    /\ engine'.src = dataset.pds)]_vars

\* C29 witness: the second request for the same path was served from the
\* handle the first one opened.
C29_Witness ==
    /\ Handled /\ DynamicMode /\ engine.called
    /\ loop.handled = 2 /\ ops = <<>>
    /\ dataset.pds # nullptr /\ engine.src = dataset.pds
    /\ dataset.name = PathOf(req)

\* C29 witness: a request for another path was served from a new handle.
C29_WitnessOtherPath ==
    /\ Handled /\ DynamicMode /\ engine.called
    /\ loop.handled = 2 /\ Len(ops) = 2
    /\ ops[2] = OpenEv(PathOf(req), dataset.pds)
    /\ engine.src = dataset.pds /\ dataset.name = PathOf(req)

\* The GDAL calls of a step end with an open of the path that failed.
OpenFailed(evs, path) ==
    evs # <<>> /\ evs[Len(evs)] = OpenEv(path, nullptr)

\* C30: in dynamic mode, the step in which the open of a path P fails
\* closes the raster that was open, and leaves the slot with no handle and
\* with P recorded; a request that resolves to P while the slot is in that
\* state is answered 404 "No such dataset" with no open attempted and the
\* slot left as it is; and the slot leaves that state only in a step that
\* handles a request resolving to another path.
C30_FailedPathRemembered ==
    [][/\ (pc = "request" /\ pc' = "finish" /\ DynamicMode
           /\ OpenFailed(ops', PathOf(req)))
          => /\ dataset'.pds = nullptr
             /\ dataset'.name = PathOf(req)
             /\ live' = {}
             /\ dataset.pds # nullptr
                => ops' = <<CloseEv(dataset.pds),
                            OpenEv(PathOf(req), nullptr)>>
       /\ (pc = "request" /\ pc' = "finish" /\ DynamicMode /\ Resolves(req)
           /\ dataset.pds = nullptr /\ dataset.name = PathOf(req))
          => /\ out' = ErrorPage(404, "Not Found", "No such dataset")
             /\ ops' = <<>>
             /\ dataset' = dataset
       /\ (DynamicMode /\ dataset.pds = nullptr /\ dataset.name # ""
           /\ dataset' # dataset)
          => /\ pc = "request" /\ Resolves(req)
             /\ PathOf(req) # dataset.name]_vars

\* C30 witness: the second request for a path that does not open was
\* answered 404 from the recorded failure, with no open attempted.
C30_Witness ==
    /\ Handled /\ DynamicMode /\ Resolves(req)
    /\ loop.handled = 2 /\ ops = <<>>
    /\ dataset.pds = nullptr /\ dataset.name = PathOf(req)
    /\ out = ErrorPage(404, "Not Found", "No such dataset")

\* C30 witness: a failing open has closed the raster an earlier request
\* had opened.
C30_WitnessClosed ==
    /\ Handled /\ DynamicMode /\ Len(ops) = 2
    /\ ops[1].op = "close" /\ ops[2] = OpenEv(PathOf(req), nullptr)
    /\ dataset.pds = nullptr /\ dataset.name = PathOf(req) /\ live = {}

-----------------------------------------------------------------------------
(* C31 *)

\* The request's box, each value truncated toward zero.
SuppliedBox(rq) ==
    [i \in 1..4 |->
        LET x == ValuesOf(rq.bbox)[i]
        IN IF x >= 0 THEN D(x \div Scale) ELSE -D((-x) \div Scale)]

\* C31: in dynamic mode a box of four values that the request supplied and
\* the parser accepted is never replaced by the full raster (0,0,W,H): the
\* request is rejected when the supplied box lies outside the raster, and
\* otherwise the engine is called with the supplied box.
C31_SuppliedBoxNotReplaced ==
    (Handled /\ DynamicMode /\ Resolves(req)
     /\ PathOf(req) \in DOMAIN Rasters /\ FourNumerals(req.bbox))
        => LET r == Rasters[PathOf(req)]
               t == SuppliedBox(req)
           IN IF OutsideExtent(t, r.xsize, r.ysize)
              THEN ~engine.called
              ELSE engine.called /\ engine.bbox = t

====
